---- MODULE Spec2Model ----
(***************************************************************************)
(* Bartender's Friend: the staging -> canonical migration                  *)
(* (scripts/migration/migrate_sources.py).                                 *)
(*                                                                         *)
(* SQL text values are sequences of characters; SQL NULL / Python None is  *)
(* the one-element sequence NULL whose element is no character.  Integer   *)
(* NULL (a missing glass_type_id or ingredient_order) is NullInt.          *)
(* A canonical database is a record of four tables, each a set of rows.    *)
(***************************************************************************)
EXTENDS Integers, Sequences, FiniteSets, TLC

VARIABLES
    the_cocktail_db,      \* staging table (set of rows)
    boston_cocktails,     \* staging table (set of rows)
    glass_name_not_null,  \* schema: glass_type.name carries NOT NULL
    db,                   \* the committed canonical tables
    tx,                   \* the canonical tables as the open transaction sees them
    args,                 \* parse_args(): [source, limit, dry_run]
    pc,                   \* position of main()
    drinks,               \* rows of the driver's fetchall() not yet iterated
    counters,             \* the running driver's (created, skipped, rels, conflicts)
    totals,               \* main's totals dict: source -> counters
    exc,                  \* the exception main's try block raised ("none": none)
    last,                 \* the most recent direct call of an operation and its result
    issued,               \* every (trimmed name, identifier) get_or_create_ingredient returned
    prev                  \* the previous run, when it completed with the same --source
                          \* and --limit: its outcome and totals

vars ==
    <<the_cocktail_db, boston_cocktails, glass_name_not_null, db, tx, args, pc,
      drinks, counters, totals, exc, last, issued, prev>>

staging == <<the_cocktail_db, boston_cocktails, glass_name_not_null>>
main_vars == <<args, pc, drinks, counters, totals, exc, prev>>

\* ------------------------------------------------------------------ bounds
MaxLen == 3
MaxRows == 3
MaxNullGlass == 2
MaxOpsRows == 2

\* ------------------------------------------------------------------ text
Chars == {" ", "a", "A"}
NULL == <<"NULL">>
NullInt == -1

IsSpace(c) == c = " "
IsCased(c) == c \in {"a", "A"}
Upper(c) == IF c = "a" THEN "A" ELSE c
Lower(c) == IF c = "A" THEN "a" ELSE c

RECURSIVE lstrip(_)
lstrip(s) ==
    IF s = <<>> THEN <<>>
    ELSE IF IsSpace(Head(s)) THEN lstrip(Tail(s)) ELSE s

RECURSIVE rstrip(_)
rstrip(s) ==
    IF s = <<>> THEN <<>>
    ELSE IF IsSpace(s[Len(s)]) THEN rstrip(SubSeq(s, 1, Len(s) - 1)) ELSE s

\* str.strip()
strip(s) == rstrip(lstrip(s))

\* str.title(): a cased character is upper-cased when the character before
\* it is not cased (or there is none) and lower-cased otherwise.
title(s) ==
    [i \in 1..Len(s) |->
        IF IsCased(s[i])
        THEN IF i > 1 /\ IsCased(s[i - 1]) THEN Lower(s[i]) ELSE Upper(s[i])
        ELSE s[i]]

\* str.lower(), used only to say "differ only in letter case"
lower(s) == [i \in 1..Len(s) |-> Lower(s[i])]

\* Python truthiness of an Optional[str]: None and "" are falsy
Falsy(s) == s = NULL \/ s = <<>>

\* title_case: None stays None; s.strip().title() if s.strip() else None
title_case(s) ==
    IF s = NULL THEN NULL
    ELSE LET t == strip(s) IN IF t # <<>> THEN title(t) ELSE NULL

\* ------------------------------------------------------------------ tables
EmptyDB ==
    [cocktail |-> {}, ingredient |-> {}, glass_type |-> {},
     cocktail_ingredient |-> {}]

Max(S) == CHOOSE x \in S : \A y \in S : y <= x

\* RETURNING id of a freshly inserted row: an identifier no row of the
\* table carries (the smallest one above all of them).
NextId(rows) == IF rows = {} THEN 1 ELSE Max({r.id : r \in rows}) + 1

Ok(d, id) == [db |-> d, id |-> id, raised |-> "none"]
Raise(d, e) == [db |-> d, id |-> NullInt, raised |-> e]

\* ------------------------------------------------------ dimension resolvers
\* SELECT id FROM <table> WHERE name = key: a NULL key matches no row
SelectByName(rows, key) == {r \in rows : key # NULL /\ r.name = key}

\* get_or_create_glass with the name looked up and stored as given
get_or_create_glass_NoNorm(d, name) ==
    IF Falsy(name) THEN Ok(d, NullInt)
    ELSE LET found == SelectByName(d.glass_type, name)
         IN  IF found # {} THEN Ok(d, (CHOOSE r \in found : TRUE).id)
             ELSE LET id == NextId(d.glass_type)
                  IN  Ok([d EXCEPT !.glass_type = @ \cup {[id |-> id, name |-> name]}], id)

\* get_or_create_glass(cur, name): the database after the call, the
\* identifier returned (NullInt: None) and the exception raised.  An INSERT
\* of a NULL name raises when the column is NOT NULL and adds a row if not
\* (UNIQUE never matches two NULLs).
get_or_create_glass(d, name) ==
    IF Falsy(name) THEN Ok(d, NullInt)
    ELSE LET norm == title_case(name)
             found == SelectByName(d.glass_type, norm)
         IN  IF found # {} THEN Ok(d, (CHOOSE r \in found : TRUE).id)
             ELSE IF norm = NULL /\ glass_name_not_null
                  THEN Raise(d, "IntegrityError")
                  ELSE LET id == NextId(d.glass_type)
                       IN  Ok([d EXCEPT !.glass_type = @ \cup {[id |-> id, name |-> norm]}], id)

\* get_or_create_ingredient with the name taken as given
get_or_create_ingredient_NoStrip(d, name) ==
    IF name = <<>> THEN Raise(d, "ValueError")
    ELSE LET found == SelectByName(d.ingredient, name)
         IN  IF found # {} THEN Ok(d, (CHOOSE r \in found : TRUE).id)
             ELSE LET id == NextId(d.ingredient)
                  IN  Ok([d EXCEPT !.ingredient = @ \cup {[id |-> id, name |-> name]}], id)

\* the identifier handed out without the INSERT of the row
get_or_create_ingredient_NoInsert(d, name) ==
    LET key == strip(name)
    IN  IF key = <<>> THEN Raise(d, "ValueError")
        ELSE LET found == SelectByName(d.ingredient, key)
             IN  IF found # {} THEN Ok(d, (CHOOSE r \in found : TRUE).id)
                 ELSE Ok(d, NextId(d.ingredient))

\* get_or_create_ingredient(cur, name)
get_or_create_ingredient(d, name) ==
    LET key == strip(name)
    IN  IF key = <<>> THEN Raise(d, "ValueError")
        ELSE LET found == SelectByName(d.ingredient, key)
             IN  IF found # {} THEN Ok(d, (CHOOSE r \in found : TRUE).id)
                 ELSE LET id == NextId(d.ingredient)
                      IN  Ok([d EXCEPT !.ingredient = @ \cup {[id |-> id, name |-> key]}], id)

\* ------------------------------------------------------------ cocktail upsert
COALESCE(a, b) == IF a # NULL THEN a ELSE b
COALESCE_int(a, b) == IF a # NullInt THEN a ELSE b

\* the stored row replaced by the proposed one, identifier included
CocktailConflictUpdate_Reinsert(old, new) == new

\* DO UPDATE SET with every column taken from EXCLUDED
CocktailConflictUpdate_Overwrite(old, new) ==
    [old EXCEPT !.category = new.category,
                !.glass_type_id = new.glass_type_id,
                !.description = new.description,
                !.instructions = new.instructions]

\* ON CONFLICT (name, source) DO UPDATE SET ...: old is the stored row,
\* new the row proposed for insertion (EXCLUDED)
CocktailConflictUpdate(old, new) ==
    [old EXCEPT !.category = new.category,
                !.glass_type_id = COALESCE_int(new.glass_type_id, old.glass_type_id),
                !.description = COALESCE(new.description, old.description),
                !.instructions = COALESCE(new.instructions, old.instructions)]

\* a conflict target of the name alone
CocktailConflict_NameOnly(rows, name, source) == {r \in rows : r.name = name}
\* ON CONFLICT (name, source): the stored rows the proposed row conflicts with
CocktailConflict(rows, name, source) == {r \in rows : r.name = name /\ r.source = source}

\* upsert_cocktail(cur, ...): the database after the call and RETURNING id
upsert_cocktail(d, name, source, category, glass, description, instructions) ==
    LET g == get_or_create_glass(d, glass)
    IN  IF g.raised # "none" THEN g
        ELSE LET d1 == g.db
                 conflict == CocktailConflict(d1.cocktail, name, source)
                 new == [id |-> NextId(d1.cocktail), name |-> name, source |-> source,
                         category |-> category, glass_type_id |-> g.id,
                         description |-> description, instructions |-> instructions]
             IN  IF conflict = {}
                 THEN Ok([d1 EXCEPT !.cocktail = @ \cup {new}], new.id)
                 ELSE LET old == CHOOSE r \in conflict : TRUE
                      IN  Ok([d1 EXCEPT !.cocktail =
                                (@ \ {old}) \cup {CocktailConflictUpdate(old, new)}],
                             old.id)

\* -------------------------------------------------------- relationship upsert
\* DO UPDATE SET keeping the stored quantity and order under a NULL
RelationConflictUpdate_Coalesce(old, new) ==
    [old EXCEPT !.quantity = COALESCE(new.quantity, old.quantity),
                !.ingredient_order = COALESCE_int(new.ingredient_order, old.ingredient_order),
                !.source_dataset = new.source_dataset]

\* ON CONFLICT (cocktail_id, ingredient_id) DO UPDATE SET ...
RelationConflictUpdate(old, new) ==
    [old EXCEPT !.quantity = new.quantity,
                !.ingredient_order = new.ingredient_order,
                !.source_dataset = new.source_dataset]

\* an upsert that first clears the cocktail's other relationship rows
upsert_cocktail_ingredient_Replace(d, cocktail_id, ingredient_id, quantity, order_index, source_dataset) ==
    [d EXCEPT !.cocktail_ingredient =
        {r \in @ : r.cocktail_id # cocktail_id}
        \cup {[cocktail_id |-> cocktail_id, ingredient_id |-> ingredient_id,
                quantity |-> quantity, ingredient_order |-> order_index,
                source_dataset |-> source_dataset]}]

\* upsert_cocktail_ingredient(cur, ...): the database after the call
upsert_cocktail_ingredient(d, cocktail_id, ingredient_id, quantity, order_index, source_dataset) ==
    LET conflict == {r \in d.cocktail_ingredient :
                        r.cocktail_id = cocktail_id /\ r.ingredient_id = ingredient_id}
        new == [cocktail_id |-> cocktail_id, ingredient_id |-> ingredient_id,
                quantity |-> quantity, ingredient_order |-> order_index,
                source_dataset |-> source_dataset]
    IN  IF conflict = {}
        THEN [d EXCEPT !.cocktail_ingredient = @ \cup {new}]
        ELSE LET old == CHOOSE r \in conflict : TRUE
             IN  [d EXCEPT !.cocktail_ingredient =
                    (@ \ {old}) \cup {RelationConflictUpdate(old, new)}]

\* ------------------------------------------------------------ SQL helpers
CharRank(c) == CASE c = " " -> 0 [] c = "A" -> 1 [] OTHER -> 2

\* text comparison (ORDER BY, MAX): lexicographic on the characters
RECURSIVE TextLeq(_, _)
TextLeq(s, t) ==
    IF s = <<>> THEN TRUE
    ELSE IF t = <<>> THEN FALSE
    ELSE IF Head(s) = Head(t) THEN TextLeq(Tail(s), Tail(t))
    ELSE CharRank(Head(s)) < CharRank(Head(t))

\* MAX(col): NULLs are ignored; NULL when every value is NULL
SqlMax(S) ==
    LET known == S \ {NULL}
    IN  IF known = {} THEN NULL
        ELSE CHOOSE x \in known : \A y \in known : TextLeq(y, x)

\* ORDER BY name over distinct names
RECURSIVE OrderByName(_)
OrderByName(S) ==
    IF S = {} THEN <<>>
    ELSE LET m == CHOOSE x \in S : \A y \in S : TextLeq(x.name, y.name)
         IN  <<m>> \o OrderByName(S \ {m})

\* ORDER BY key NULLS LAST
NullsLastLeq(a, b) == b = NullInt \/ (a # NullInt /\ a <= b)

\* Every order in which ORDER BY key NULLS LAST may return the rows R:
\* SQL leaves the order of rows with equal keys unspecified.
RECURSIVE Orderings(_)
Orderings(R) ==
    IF R = {} THEN {<<>>}
    ELSE UNION {{<<r>> \o s : s \in Orderings(R \ {r})} :
                r \in {x \in R : \A y \in R : NullsLastLeq(x.order_idx, y.order_idx)}}

\* " LIMIT %s" if limit: None and 0 are falsy and add no LIMIT clause
ApplyLimit(rows, limit) ==
    IF limit # NullInt /\ limit # 0 /\ limit < Len(rows)
    THEN SubSeq(rows, 1, limit) ELSE rows

\* ingredient_number ~ '^\\d+$' THEN ingredient_number::int ELSE NULL
IsDigit(c) == c \in {"1", "2"}
DigitVal(c) == IF c = "1" THEN 1 ELSE 2
RECURSIVE ToInt(_)
ToInt(s) == IF s = <<>> THEN 0 ELSE 10 * ToInt(SubSeq(s, 1, Len(s) - 1)) + DigitVal(s[Len(s)])
\* ingredient_number ~ '^\\d+$'
AllDigits(ingredient_number) ==
    /\ ingredient_number # NULL
    /\ ingredient_number # <<>>
    /\ \A i \in 1..Len(ingredient_number) : IsDigit(ingredient_number[i])
boston_order_idx(ingredient_number) ==
    IF AllDigits(ingredient_number) THEN ToInt(ingredient_number) ELSE NullInt

\* ::int is a 32-bit integer: a digit string above 2147483647 makes the
\* cast, and with it the query, fail (numeric value out of range).  The
\* strings are compared digit by digit.
IntMaxDigits == <<2, 1, 4, 7, 4, 8, 3, 6, 4, 7>>
RECURSIVE DigitsAbove(_, _)
DigitsAbove(s, m) ==
    IF s = <<>> THEN FALSE
    ELSE IF DigitVal(Head(s)) # Head(m) THEN DigitVal(Head(s)) > Head(m)
    ELSE DigitsAbove(Tail(s), Tail(m))
OutOfIntRange(s) ==
    Len(s) > Len(IntMaxDigits) \/ (Len(s) = Len(IntMaxDigits) /\ DigitsAbove(s, IntMaxDigits))

\* ------------------------------------------------------------------ drivers
TCD == "the_cocktail_db"
BOSTON == "boston_cocktails"
ZeroCounters == [created |-> 0, skipped |-> 0, rels |-> 0, conflicts |-> 0]

\* SELECT drink, MAX(glass), MAX(category) ... GROUP BY drink ORDER BY drink
tcd_drinks(limit) ==
    ApplyLimit(
        OrderByName({[name |-> n,
                      glass |-> SqlMax({r.glass : r \in {x \in the_cocktail_db : x.drink = n}}),
                      category |-> SqlMax({r.category : r \in {x \in the_cocktail_db : x.drink = n}})]
                     : n \in {r.drink : r \in the_cocktail_db}}),
        limit)

\* SELECT name, MAX(category) ... GROUP BY name ORDER BY name
boston_names(limit) ==
    ApplyLimit(
        OrderByName({[name |-> n,
                      glass |-> NULL,
                      category |-> SqlMax({r.category : r \in {x \in boston_cocktails : x.name = n}})]
                     : n \in {r.name : r \in boston_cocktails}}),
        limit)

\* the rows of the per-drink ingredient query, as [order_idx, ingredient, measure]
\* (row carries the staging row, which keeps equal projections of distinct
\* staging rows apart, as SQL does)
tcd_ingredient_rows(drink_name) ==
    Orderings({[order_idx |-> r.ingredient_order, ingredient |-> r.ingredient,
                measure |-> r.measure, row |-> r] :
               r \in {x \in the_cocktail_db : x.drink = drink_name /\ x.ingredient # NULL}})
boston_ingredient_rows(name) ==
    Orderings({[order_idx |-> boston_order_idx(r.ingredient_number),
                ingredient |-> r.ingredient, measure |-> r.measure, row |-> r] :
               r \in {x \in boston_cocktails : x.name = name /\ x.ingredient # NULL}})

\* the ingredient query of import_boston_cocktails fails in the cast
boston_cast_fails(name) ==
    \E r \in boston_cocktails :
        /\ r.name = name
        /\ r.ingredient # NULL
        /\ AllDigits(r.ingredient_number)
        /\ OutOfIntRange(r.ingredient_number)

\* the inner loop without its try/except: the ValueError leaves the driver
RECURSIVE ingredient_loop_Abort(_, _, _, _, _)
ingredient_loop_Abort(d, rels, cocktail_id, rows, source) ==
    IF rows = <<>> THEN [db |-> d, rels |-> rels, raised |-> "none"]
    ELSE LET g == get_or_create_ingredient(d, Head(rows).ingredient)
         IN  IF g.raised = "ValueError"
             THEN [db |-> d, rels |-> rels, raised |-> "ValueError"]
             ELSE ingredient_loop_Abort(
                      upsert_cocktail_ingredient(g.db, cocktail_id, g.id, Head(rows).measure,
                                                 Head(rows).order_idx, source),
                      rels + 1, cocktail_id, Tail(rows), source)

\* the inner loop counting a relationship only when its row is new
RECURSIVE ingredient_loop_CountNew(_, _, _, _, _)
ingredient_loop_CountNew(d, rels, cocktail_id, rows, source) ==
    IF rows = <<>> THEN [db |-> d, rels |-> rels, raised |-> "none"]
    ELSE LET g == get_or_create_ingredient(d, Head(rows).ingredient)
         IN  IF g.raised = "ValueError"
             THEN ingredient_loop_CountNew(d, rels, cocktail_id, Tail(rows), source)
             ELSE ingredient_loop_CountNew(
                      upsert_cocktail_ingredient(g.db, cocktail_id, g.id, Head(rows).measure,
                                                 Head(rows).order_idx, source),
                      IF \E r \in g.db.cocktail_ingredient :
                            r.cocktail_id = cocktail_id /\ r.ingredient_id = g.id
                      THEN rels ELSE rels + 1,
                      cocktail_id, Tail(rows), source)

\* the inner loop of a driver: for order_idx, ingredient_name, measure in rows
RECURSIVE ingredient_loop(_, _, _, _, _)
ingredient_loop(d, rels, cocktail_id, rows, source) ==
    IF rows = <<>> THEN [db |-> d, rels |-> rels, raised |-> "none"]
    ELSE LET g == get_or_create_ingredient(d, Head(rows).ingredient)
         IN  IF g.raised = "ValueError"
             THEN ingredient_loop(d, rels, cocktail_id, Tail(rows), source)
             ELSE ingredient_loop(
                      upsert_cocktail_ingredient(g.db, cocktail_id, g.id, Head(rows).measure,
                                                 Head(rows).order_idx, source),
                      rels + 1, cocktail_id, Tail(rows), source)

\* one iteration of a driver's outer loop over the fetched row `drink`,
\* its ingredient query having returned `rows`
driver_iteration(d, c, drink, rows, source) ==
    LET u == upsert_cocktail(d, drink.name, source, drink.category, drink.glass, NULL, NULL)
    IN  IF u.raised # "none"
        THEN [db |-> u.db, counters |-> c, raised |-> u.raised]
        ELSE LET l == ingredient_loop(u.db, c.rels, u.id, rows, source)
             IN  [db |-> l.db,
                  counters |-> [c EXCEPT !.created = @ + 1, !.rels = l.rels],
                  raised |-> l.raised]

\* the outcomes of one iteration of import_boston_cocktails' outer loop: the
\* cocktail is upserted and counted, then the ingredient query either fails
\* in its cast or returns its rows in one of the orders ORDER BY allows
boston_iteration(d, c, drink) ==
    IF boston_cast_fails(drink.name)
    THEN {[driver_iteration(d, c, drink, <<>>, BOSTON) EXCEPT
              !.raised = IF @ = "none" THEN "DataError" ELSE @]}
    ELSE {driver_iteration(d, c, drink, rows, BOSTON) :
              rows \in boston_ingredient_rows(drink.name)}

\* --------------------------------------------------------------------- main
\* a connection that commits every statement
connect_Autocommit == [autocommit |-> TRUE]
\* connect(): the connection's settings
connect == [autocommit |-> FALSE]

\* what a statement executed on the connection leaves committed
Committed(d) == IF connect.autocommit THEN d ELSE db

Sources == {TCD, BOSTON, "both"}
Limits == {NullInt, 1}
Args == [source : Sources, limit : Limits, dry_run : BOOLEAN]
NoArgs == [source |-> "none", limit |-> NullInt, dry_run |-> FALSE]
NoRun == [outcome |-> "none", totals |-> <<>>]
NoCall == [op |-> "none"]

Stopped == pc \in {"idle", "done", "error"}
Running == pc \in {"tcd_fetch", "tcd_loop", "boston_fetch", "boston_loop", "finish"}

\* args = parse_args(); conn = connect(cfg); cur = conn.cursor()
\* (runs are started while the nameless glass_type rows are fewer than
\* MaxNullGlass, which keeps the tables finite)
NullGlass(d) == {g \in d.glass_type : g.name = NULL}

Begin(a) ==
    /\ Stopped
    /\ Cardinality(NullGlass(db)) < MaxNullGlass
    /\ args' = a
    /\ tx' = db
    /\ totals' = <<>>
    /\ drinks' = <<>>
    /\ counters' = ZeroCounters
    /\ prev' = IF pc = "done" /\ args.source = a.source /\ args.limit = a.limit
               THEN [outcome |-> IF args.dry_run THEN "rolled_back" ELSE "committed",
                     totals |-> totals]
               ELSE NoRun
    /\ pc' = IF a.source \in {TCD, "both"} THEN "tcd_fetch" ELSE "boston_fetch"
    /\ exc' = "none"
    /\ UNCHANGED <<staging, db, last, issued>>

\* import_the_cocktail_db: the drinks query and the counters
TcdFetch ==
    /\ pc = "tcd_fetch"
    /\ drinks' = tcd_drinks(args.limit)
    /\ counters' = ZeroCounters
    /\ pc' = "tcd_loop"
    /\ UNCHANGED <<staging, db, tx, args, totals, exc, last, issued, prev>>

\* import_the_cocktail_db: one iteration of for (drink_name, glass, category) in drinks
TcdIteration ==
    /\ pc = "tcd_loop"
    /\ drinks # <<>>
    /\ \E rows \in tcd_ingredient_rows(Head(drinks).name) :
          LET r == driver_iteration(tx, counters, Head(drinks), rows, TCD)
          IN  /\ tx' = r.db
              /\ db' = Committed(r.db)
              /\ counters' = r.counters
              /\ drinks' = IF r.raised = "none" THEN Tail(drinks) ELSE drinks
              /\ pc' = IF r.raised = "none" THEN "tcd_loop" ELSE "except"
              /\ exc' = r.raised
    /\ UNCHANGED <<staging, args, totals, last, issued, prev>>

\* import_the_cocktail_db: return created, skipped, rels, conflicts
TcdReturn ==
    /\ pc = "tcd_loop"
    /\ drinks = <<>>
    /\ totals' = (TCD :> counters)
    /\ counters' = ZeroCounters
    /\ pc' = IF args.source = "both" THEN "boston_fetch" ELSE "finish"
    /\ UNCHANGED <<staging, db, tx, args, drinks, exc, last, issued, prev>>

\* import_boston_cocktails: the names query and the counters
BostonFetch ==
    /\ pc = "boston_fetch"
    /\ drinks' = boston_names(args.limit)
    /\ counters' = ZeroCounters
    /\ pc' = "boston_loop"
    /\ UNCHANGED <<staging, db, tx, args, totals, exc, last, issued, prev>>

\* import_boston_cocktails: one iteration of for (name, category) in names
BostonIteration ==
    /\ pc = "boston_loop"
    /\ drinks # <<>>
    /\ \E r \in boston_iteration(tx, counters, Head(drinks)) :
          /\ tx' = r.db
          /\ db' = Committed(r.db)
          /\ counters' = r.counters
          /\ drinks' = IF r.raised = "none" THEN Tail(drinks) ELSE drinks
          /\ pc' = IF r.raised = "none" THEN "boston_loop" ELSE "except"
          /\ exc' = r.raised
    /\ UNCHANGED <<staging, args, totals, last, issued, prev>>

\* import_boston_cocktails: return created, skipped, rels, conflicts
BostonReturn ==
    /\ pc = "boston_loop"
    /\ drinks = <<>>
    /\ totals' = totals @@ (BOSTON :> counters)
    /\ counters' = ZeroCounters
    /\ pc' = "finish"
    /\ UNCHANGED <<staging, db, tx, args, drinks, exc, last, issued, prev>>

\* the end of the try block without the dry-run branch
finish_CommitAlways(dry_run) == [db |-> tx, tx |-> tx]
\* if args.dry_run: conn.rollback() else: conn.commit(); then the summary
finish(dry_run) == IF dry_run THEN [db |-> db, tx |-> db] ELSE [db |-> tx, tx |-> tx]

Finish ==
    /\ pc = "finish"
    /\ db' = finish(args.dry_run).db
    /\ tx' = finish(args.dry_run).tx
    /\ pc' = "done"
    /\ UNCHANGED <<staging, args, drinks, counters, totals, exc, last, issued, prev>>

\* except Exception as e: conn.rollback(); print; raise
except == [db |-> db, tx |-> db]

\* any other datastore error (a lost connection, ...) raised by a statement
\* of the try block, and the except clause handling it
DatastoreError ==
    /\ Running
    /\ exc' = "OperationalError"
    /\ db' = except.db
    /\ tx' = except.tx
    /\ pc' = "error"
    /\ drinks' = <<>>
    /\ counters' = ZeroCounters
    /\ prev' = NoRun
    /\ UNCHANGED <<staging, args, totals, last, issued>>

\* the except clause handling the error a driver iteration raised
Except ==
    /\ pc = "except"
    /\ db' = except.db
    /\ tx' = except.tx
    /\ pc' = "error"
    /\ drinks' = <<>>
    /\ counters' = ZeroCounters
    /\ prev' = NoRun
    /\ UNCHANGED <<staging, args, totals, exc, last, issued>>

Next ==
    \/ \E a \in Args : Begin(a)
    \/ TcdFetch
    \/ TcdIteration
    \/ TcdReturn
    \/ BostonFetch
    \/ BostonIteration
    \/ BostonReturn
    \/ Finish
    \/ DatastoreError
    \/ Except

\* ------------------------------------------------------------------ staging
TcdRow(drink, category, glass, order, ingredient, measure) ==
    [drink |-> drink, category |-> category, glass |-> glass,
     ingredient_order |-> order, ingredient |-> ingredient, measure |-> measure]
BostonRow(name, category, number, ingredient, measure) ==
    [name |-> name, category |-> category, ingredient_number |-> number,
     ingredient |-> ingredient, measure |-> measure]

\* the staging rows the tables are drawn from: a blank ingredient ordered
\* first, one ingredient twice under one order key, a whitespace-only glass,
\* a non-numeric and a missing ingredient_number, one name in both sources
TcdUniverse ==
    {TcdRow(<<"A">>, <<"a">>, <<" ", "a">>, 1, <<" ">>, <<"a">>),
     TcdRow(<<"A">>, NULL, NULL, 2, <<"a", " ">>, NULL),
     TcdRow(<<"A">>, <<"A">>, <<"A">>, 2, <<"a">>, <<"A">>),
     TcdRow(<<"a">>, NULL, <<" ">>, NullInt, <<"A">>, <<>>)}
BostonUniverse ==
    {BostonRow(<<"A">>, <<"a">>, <<"1">>, <<>>, <<"a">>),
     BostonRow(<<"A">>, NULL, <<"2">>, <<" ", "a">>, <<"A">>),
     BostonRow(<<"a">>, <<"A">>, <<"a">>, <<"A">>, NULL),
     BostonRow(<<"a">>, NULL, NULL, <<"a">>, <<"a">>)}

InitCommon ==
    /\ db = EmptyDB
    /\ tx = EmptyDB
    /\ args = NoArgs
    /\ pc = "idle"
    /\ drinks = <<>>
    /\ counters = ZeroCounters
    /\ totals = <<>>
    /\ exc = "none"
    /\ last = NoCall
    /\ issued = {}
    /\ prev = NoRun

Init ==
    /\ the_cocktail_db \in SUBSET TcdUniverse
    /\ boston_cocktails \in SUBSET BostonUniverse
    /\ Cardinality(the_cocktail_db) + Cardinality(boston_cocktails) <= MaxRows
    \* the constraint decides an INSERT only when a staged glass is blank
    /\ glass_name_not_null \in
          IF \E r \in the_cocktail_db : ~Falsy(r.glass) /\ title_case(r.glass) = NULL
          THEN BOOLEAN ELSE {FALSE}
    /\ InitCommon

Spec == Init /\ [][Next]_vars

\* ------------------------------------------------- the operations, one by one
\* Each operation called directly on an open transaction, with every
\* argument of a bounded set, between commits and rollbacks.
Strings(n) == UNION {[1..k -> Chars] : k \in 0..n}

InitOps ==
    /\ the_cocktail_db = {}
    /\ boston_cocktails = {}
    /\ glass_name_not_null \in BOOLEAN
    /\ InitCommon

\* get_or_create_glass(cur, name)
CallGetOrCreateGlass(name) ==
    LET r == get_or_create_glass(tx, name)
    IN  /\ Cardinality(r.db.glass_type) <= MaxOpsRows
        /\ tx' = r.db
        /\ last' = [op |-> "get_or_create_glass", name |-> name, id |-> r.id,
                    raised |-> r.raised]
        /\ UNCHANGED <<staging, main_vars, db, issued>>

NextGlass == \E name \in Strings(MaxLen) \cup {NULL} : CallGetOrCreateGlass(name)

SpecGlass == InitOps /\ [][NextGlass]_vars

\* get_or_create_ingredient(cur, name)
CallGetOrCreateIngredient(name) ==
    LET r == get_or_create_ingredient(tx, name)
    IN  /\ Cardinality(r.db.ingredient) <= MaxOpsRows
        /\ tx' = r.db
        /\ last' = [op |-> "get_or_create_ingredient", name |-> name, id |-> r.id,
                    raised |-> r.raised]
        /\ issued' = IF r.raised = "none"
                      THEN issued \cup {[name |-> strip(name), id |-> r.id]}
                      ELSE issued
        /\ UNCHANGED <<staging, main_vars, db>>

\* conn.commit()
CallCommit ==
    /\ db' = tx
    /\ last' = [op |-> "commit"]
    /\ UNCHANGED <<staging, main_vars, tx, issued>>

\* conn.rollback()
CallRollback ==
    /\ tx' = db
    /\ last' = [op |-> "rollback"]
    /\ UNCHANGED <<staging, main_vars, db, issued>>

\* ingredient names: one letter, blanks around it or nothing but blanks
Letters(s) == {i \in 1..Len(s) : IsCased(s[i])}
IngredientNames == {s \in Strings(MaxLen) : Cardinality(Letters(s)) <= 1}

NextIngredient ==
    \/ \E name \in IngredientNames : CallGetOrCreateIngredient(name)
    \/ CallCommit
    \/ CallRollback

InitIngredient == InitOps /\ glass_name_not_null = FALSE

SpecIngredient == InitIngredient /\ [][NextIngredient]_vars

\* upsert_cocktail(cur, name=, source=, category=, glass=, description=, instructions=)
CallUpsertCocktail(name, source, category, glass, description, instructions) ==
    LET r == upsert_cocktail(tx, name, source, category, glass, description, instructions)
    IN  /\ Cardinality(r.db.glass_type) <= MaxOpsRows
        /\ tx' = r.db
        /\ last' = [op |-> "upsert_cocktail", name |-> name, source |-> source,
                    category |-> category, glass |-> glass, description |-> description,
                    instructions |-> instructions, id |-> r.id, raised |-> r.raised,
                    existed |-> \E c \in tx.cocktail : c.name = name /\ c.source = source]
        /\ UNCHANGED <<staging, main_vars, db, issued>>

NextCocktail ==
    \E name \in {<<"A">>}, source \in {TCD}, category \in {NULL, <<"a">>},
       glass \in {NULL, <<" ">>, <<"a">>}, description \in {NULL, <<"a">>},
       instructions \in {NULL, <<"a">>, <<"A">>} :
        CallUpsertCocktail(name, source, category, glass, description, instructions)

SpecCocktail == InitOps /\ [][NextCocktail]_vars

\* upsert_cocktail_ingredient(cur, cocktail_id=, ingredient_id=, quantity=, order_index=,
\* source_dataset=), for a cocktail and an ingredient that exist
CallUpsertCocktailIngredient(cocktail_id, ingredient_id, quantity, order_index, source_dataset) ==
    /\ tx' = upsert_cocktail_ingredient(tx, cocktail_id, ingredient_id, quantity,
                                        order_index, source_dataset)
    /\ last' = [op |-> "upsert_cocktail_ingredient", cocktail_id |-> cocktail_id,
                ingredient_id |-> ingredient_id, quantity |-> quantity,
                order_index |-> order_index, source_dataset |-> source_dataset,
                existed |-> \E r \in tx.cocktail_ingredient :
                               r.cocktail_id = cocktail_id /\ r.ingredient_id = ingredient_id]
    /\ UNCHANGED <<staging, main_vars, db, issued>>

NextRelation ==
    \E c \in tx.cocktail, i \in tx.ingredient, quantity \in {NULL, <<>>, <<"a">>, <<"A">>},
       order_index \in {NullInt, 1, 2}, source_dataset \in {TCD, BOSTON} :
        CallUpsertCocktailIngredient(c.id, i.id, quantity, order_index, source_dataset)

\* two cocktails of one name and one ingredient, as the drivers leave them
RelationSeed ==
    get_or_create_ingredient(
        upsert_cocktail(
            upsert_cocktail(EmptyDB, <<"A">>, TCD, NULL, NULL, NULL, NULL).db,
            <<"A">>, BOSTON, NULL, NULL, NULL, NULL).db,
        <<"a">>).db

InitRelation ==
    /\ the_cocktail_db = {}
    /\ boston_cocktails = {}
    /\ glass_name_not_null = FALSE
    /\ db = RelationSeed
    /\ tx = RelationSeed
    /\ args = NoArgs
    /\ pc = "idle"
    /\ drinks = <<>>
    /\ counters = ZeroCounters
    /\ totals = <<>>
    /\ exc = "none"
    /\ last = NoCall
    /\ issued = {}
    /\ prev = NoRun

SpecRelation == InitRelation /\ [][NextRelation]_vars

\* ==================================================================== claims
Blank(s) == s = NULL \/ strip(s) = <<>>

\* C1: running main twice in sequence with the same --source (and --limit),
\* no dry run and unchanged staging leaves the canonical tables after the
\* second run identical to their contents after the first run.
C1_Idempotent ==
    (pc = "finish" /\ ~args.dry_run /\ prev.outcome = "committed") => tx = db

\* C2: upsert_cocktail for a (name, source) that exists stores the incoming
\* category unconditionally, and for glass, description and instructions
\* the incoming value when there is one and the stored value otherwise;
\* the row keeps its place (one row for the key).
IncomingGlass(d, glass) ==
    IF Falsy(glass) THEN {} ELSE {g.id : g \in {x \in d.glass_type : x.name = title_case(glass)}}

C2_MergeTable ==
    [][(last'.op = "upsert_cocktail" /\ last'.raised = "none") =>
        \A old \in {c \in tx.cocktail : c.name = last'.name /\ c.source = last'.source} :
            {c \in tx'.cocktail : c.name = last'.name /\ c.source = last'.source} =
            {[id |-> old.id, name |-> old.name, source |-> old.source,
              category |-> last'.category,
              glass_type_id |->
                  IF IncomingGlass(tx', last'.glass) = {} THEN old.glass_type_id
                  ELSE CHOOSE g \in IncomingGlass(tx', last'.glass) :
                           \A h \in IncomingGlass(tx', last'.glass) : h <= g,
              description |->
                  IF last'.description # NULL THEN last'.description ELSE old.description,
              instructions |->
                  IF last'.instructions # NULL THEN last'.instructions
                  ELSE old.instructions]}]_vars

\* C2 witness: a call for an existing cocktail with instructions missing
\* has left the stored instructions in place
C2_Witness ==
    /\ last.op = "upsert_cocktail"
    /\ last.existed
    /\ last.raised = "none"
    /\ last.instructions = NULL
    /\ \E c \in tx.cocktail :
          c.id = last.id /\ c.instructions # NULL /\ c.category = last.category

\* C3 as claimed: no attribute of an existing cocktail (category, glass
\* reference, description, instructions) ever goes from known to NULL.
C3_NeverToNull ==
    [][\A old \in tx.cocktail : \A new \in tx'.cocktail :
          new.id = old.id =>
              /\ old.category # NULL => new.category # NULL
              /\ old.glass_type_id # NullInt => new.glass_type_id # NullInt
              /\ old.description # NULL => new.description # NULL
              /\ old.instructions # NULL => new.instructions # NULL]_vars

\* C3 as amended: the glass reference, the description and the instructions
\* of an existing cocktail never go from known to NULL, and the cocktail
\* stays; the category follows the incoming value, NULL included.
C3_CoalescedNeverToNull ==
    [][\A old \in tx.cocktail : \E new \in tx'.cocktail :
          /\ new.id = old.id
          /\ old.glass_type_id # NullInt => new.glass_type_id # NullInt
          /\ old.description # NULL => new.description # NULL
          /\ old.instructions # NULL => new.instructions # NULL
          /\ (last'.op = "upsert_cocktail" /\ last'.raised = "none"
                 /\ old.name = last'.name /\ old.source = last'.source)
              => new.category = last'.category]_vars

\* C3 witness: a re-import without glass and description has kept both
C3_Witness ==
    /\ last.op = "upsert_cocktail"
    /\ last.existed
    /\ last.raised = "none"
    /\ Falsy(last.glass)
    /\ last.description = NULL
    /\ last.category = NULL
    /\ \E c \in tx.cocktail :
          /\ c.id = last.id
          /\ c.glass_type_id # NullInt
          /\ c.description # NULL
          /\ c.category = NULL

\* C4: after upsert_cocktail_ingredient the pair (cocktail_id, ingredient_id)
\* has exactly one row and it carries the incoming quantity, order and
\* source_dataset, whatever was stored and whatever the incoming quantity.
C4_LastWriteWins ==
    last.op = "upsert_cocktail_ingredient" =>
        {r \in tx.cocktail_ingredient :
            r.cocktail_id = last.cocktail_id /\ r.ingredient_id = last.ingredient_id} =
        {[cocktail_id |-> last.cocktail_id, ingredient_id |-> last.ingredient_id,
          quantity |-> last.quantity, ingredient_order |-> last.order_index,
          source_dataset |-> last.source_dataset]}

\* C4 witness: an existing pair was overwritten with a NULL quantity and a
\* NULL order
C4_Witness ==
    /\ last.op = "upsert_cocktail_ingredient"
    /\ last.existed
    /\ last.quantity = NULL
    /\ last.order_index = NullInt
    /\ \E r \in tx.cocktail_ingredient :
          /\ r.cocktail_id = last.cocktail_id
          /\ r.ingredient_id = last.ingredient_id
          /\ r.quantity = NULL

\* C5 as claimed: every call of get_or_create_ingredient for one trimmed
\* name, within a run or across runs, returns the same identifier.
C5_SameIdentifierEver ==
    \A p \in issued : \A q \in issued : p.name = q.name => p.id = q.id

\* C5 as amended: a call returns the identifier of the one row that carries
\* the trimmed name, the row the transaction already saw when there was
\* one; rows are kept by calls; no two rows share a name or an identifier
\* (so names differing in case are two ingredients); an empty trimmed name
\* is rejected and changes nothing.
C5_OneRowPerTrimmedName ==
    [][last'.op = "get_or_create_ingredient" =>
        IF strip(last'.name) = <<>>
        THEN last'.raised = "ValueError" /\ tx' = tx
        ELSE /\ last'.raised = "none"
             /\ {r \in tx'.ingredient : r.name = strip(last'.name)} =
                {[id |-> last'.id, name |-> strip(last'.name)]}
             /\ \A r \in tx.ingredient : r.name = strip(last'.name) => r.id = last'.id
             /\ tx.ingredient \subseteq tx'.ingredient
             /\ \A r1 \in tx'.ingredient : \A r2 \in tx'.ingredient :
                   (r1.name = r2.name \/ r1.id = r2.id) => r1 = r2]_vars

\* C5 witness: a name with blanks around it resolved to a committed row
\* older than another row
C5_Witness ==
    /\ last.op = "get_or_create_ingredient"
    /\ last.raised = "none"
    /\ last.name # strip(last.name)
    /\ [id |-> last.id, name |-> strip(last.name)] \in db.ingredient
    /\ \E r \in tx.ingredient : r.id > last.id

\* C6: names with the same letters, whatever their case and the blanks
\* around them, resolve to one glass_type row, named with the title-cased
\* trimmed form, whose identifier every call returns; rows stay as they are.
C6_GlassCaseInsensitive ==
    /\ [](last.op = "get_or_create_glass" /\ ~Blank(last.name) =>
            /\ last.raised = "none"
            /\ {g \in tx.glass_type :
                   g.name # NULL /\ lower(g.name) = lower(strip(last.name))} =
               {[id |-> last.id, name |-> title(strip(last.name))]})
    /\ [][tx.glass_type \subseteq tx'.glass_type]_vars

\* C6 witness: a name that is not in normal form resolved to a row older
\* than another row
C6_Witness ==
    /\ last.op = "get_or_create_glass"
    /\ ~Blank(last.name)
    /\ last.name # title(strip(last.name))
    /\ last.id # NullInt
    /\ \E g \in tx.glass_type : g.id > last.id

\* C7: a missing, empty or whitespace-only glass name gives no identifier,
\* no error and no glass_type row.
C7_NoGlass ==
    (last.op = "get_or_create_glass" /\ Blank(last.name)) =>
        /\ last.raised = "none"
        /\ last.id = NullInt
        /\ NullGlass(tx) = {}

\* C8: only the commit that ends a successful run changes the committed
\* tables, and after a failed run the connection sees what is committed.
C8_Atomic ==
    /\ [][pc' # "done" => db' = db]_vars
    /\ [](pc = "error" => tx = db)

\* C8 witness: a run over both sources failed after the first source was
\* imported, and nothing of it is in the tables
C8_Witness ==
    /\ pc = "error"
    /\ args.source = "both"
    /\ TCD \in DOMAIN totals
    /\ totals[TCD].rels > 0
    /\ db = EmptyDB

\* C9: no step of a dry run changes the committed tables, and a normal run
\* that follows a completed dry run over the same staging data reports the
\* counters the dry run reported.
C9_DryRun ==
    /\ [][args'.dry_run => db' = db]_vars
    /\ []((pc \in {"finish", "done"} /\ ~args.dry_run /\ prev.outcome = "rolled_back")
            => totals = prev.totals)

\* C9 witness: a normal run that wrote rows ended after a dry run with the
\* same selection
C9_Witness ==
    /\ pc = "done"
    /\ ~args.dry_run
    /\ prev.outcome = "rolled_back"
    /\ BOSTON \in DOMAIN totals
    /\ totals[BOSTON].rels > 0
    /\ db.cocktail_ingredient # {}

\* C10: an ingredient that is empty after trimming raises nothing out of
\* the driver, creates no ingredient row, and is not counted: a driver
\* that returns has upserted every fetched cocktail and counts exactly the
\* staging rows of those cocktails whose ingredient has a non-empty
\* trimmed name.
Counted(rows) == {r \in rows : r.ingredient # NULL /\ strip(r.ingredient) # <<>>}
Fetched(fetch) == {fetch[i].name : i \in 1..Len(fetch)}

C10_EmptyIngredientSkipped ==
    /\ exc # "ValueError"
    /\ \A i \in tx.ingredient : i.name # <<>>
    /\ TCD \in DOMAIN totals =>
          /\ totals[TCD].created = Len(tcd_drinks(args.limit))
          /\ totals[TCD].rels =
                Cardinality(Counted({r \in the_cocktail_db :
                                        r.drink \in Fetched(tcd_drinks(args.limit))}))
    /\ BOSTON \in DOMAIN totals =>
          /\ totals[BOSTON].created = Len(boston_names(args.limit))
          /\ totals[BOSTON].rels =
                Cardinality(Counted({r \in boston_cocktails :
                                        r.name \in Fetched(boston_names(args.limit))}))

\* C10 witness: a run ended that met an empty ingredient first in a
\* cocktail, then imported a later ingredient of it and a later cocktail
C10_Witness ==
    /\ pc = "done"
    /\ \E r \in the_cocktail_db :
          /\ r.ingredient # NULL
          /\ strip(r.ingredient) = <<>>
          /\ \E t \in Counted(the_cocktail_db) :
                t.drink = r.drink /\ t.ingredient_order > r.ingredient_order
          /\ \E t \in the_cocktail_db : t.drink # r.drink /\ TextLeq(r.drink, t.drink)
    /\ TCD \in DOMAIN totals
    /\ totals[TCD].created = 2
    /\ totals[TCD].rels = 2

\* ------------------------------------------------------- the --limit option
\* One run of main from the empty tables, with --limit absent (NullInt) or
\* any integer of 0..MaxLimit.
MaxLimit == 2
LimitValues == {NullInt} \cup 0..MaxLimit
LimitArgs == [source : Sources, limit : LimitValues, dry_run : {FALSE}]

FirstRun(a) == pc = "idle" /\ Begin(a)

NextLimit ==
    \/ \E a \in LimitArgs : FirstRun(a)
    \/ TcdFetch
    \/ TcdIteration
    \/ TcdReturn
    \/ BostonFetch
    \/ BostonIteration
    \/ BostonReturn
    \/ Finish
    \/ DatastoreError
    \/ Except

SpecLimit == Init /\ [][NextLimit]_vars

Min(a, b) == IF a <= b THEN a ELSE b
DistinctNames(source) ==
    IF source = TCD THEN {r.drink : r \in the_cocktail_db}
    ELSE {r.name : r \in boston_cocktails}
\* the names of the cocktails of a source in the tables
Upserted(d, source) == {c.name : c \in {x \in d.cocktail : x.source = source}}
\* the first n of a set of names in name order
FirstNames(S, n) == {x \in S : Cardinality({y \in S : TextLeq(y, x)}) <= n}

\* C11: a driver given the limit N >= 0 upserts exactly min(N, number of
\* distinct names) cocktails of its source, the first ones in name order,
\* and all of them without a limit.
C11_LimitCapsCocktails ==
    \A source \in DOMAIN totals :
        pc # "error" =>
        LET n == IF args.limit = NullInt THEN Cardinality(DistinctNames(source))
                 ELSE Min(args.limit, Cardinality(DistinctNames(source)))
        IN  /\ totals[source].created = n
            /\ Upserted(tx, source) = FirstNames(DistinctNames(source), n)

\* ------------------------------------------- stage 1: the wide-format reshaper
\* (etl_stage1.py, load_all_drinks).  A frame is a sequence of rows; a row has
\* strDrink and, per slot i, the cells strIngredient<i> and strMeasure<i>.
\* A cell is a text, NULL (NaN: pd.notna is False) or ABSENT (the frame has
\* no such column).  The slots of range(1, 16) are cut to 1..MaxSlots.
MaxSlots == 3
ABSENT == <<"ABSENT">>
Slots == 1..MaxSlots
IngredientCells == {ABSENT, NULL, <<" ">>, <<"a">>}
MeasureCells == {ABSENT, NULL, <<"A">>}
WideRows ==
    [strDrink : {<<"A">>},
     strIngredient : [Slots -> IngredientCells],
     strMeasure : [Slots -> MeasureCells]]

\* ingredient_col in df.columns and pd.notna(row[ingredient_col])
slot_populated(row, i) == row.strIngredient[i] # ABSENT /\ row.strIngredient[i] # NULL

\* the dict appended for slot i
slot_measurement(row, i) ==
    LET measure == IF row.strMeasure[i] # ABSENT THEN row.strMeasure[i] ELSE <<>>
    IN  [cocktail_name |-> row.strDrink,
         ingredient_name |-> row.strIngredient[i],
         quantity |-> IF measure # NULL THEN measure ELSE <<>>,
         source |-> "all_drinks"]

\* for i in range(1, 16): the dicts of the slots i..MaxSlots of a row
RECURSIVE row_measurements(_, _)
row_measurements(row, i) ==
    IF i > MaxSlots THEN <<>>
    ELSE (IF slot_populated(row, i) THEN <<slot_measurement(row, i)>> ELSE <<>>)
         \o row_measurements(row, i + 1)

\* for index, row in df.iterrows(): measurements_list
RECURSIVE measurements_list(_)
measurements_list(df) ==
    IF df = <<>> THEN <<>>
    ELSE row_measurements(Head(df), 1) \o measurements_list(Tail(df))

\* load_all_drinks(file_path), on the frame read from the file
CallLoadAllDrinks(df) ==
    /\ last' = [op |-> "load_all_drinks", df |-> df,
                measurements_list |-> measurements_list(df)]
    /\ UNCHANGED <<staging, main_vars, db, tx, issued>>

NextReshape == \E row \in WideRows : CallLoadAllDrinks(<<row>>)

SpecReshape == InitOps /\ [][NextReshape]_vars

\* the slots of a row the specification calls populated, in slot order
RECURSIVE SlotsInOrder(_, _)
SlotsInOrder(row, i) ==
    IF i > MaxSlots THEN <<>>
    ELSE (IF row.strIngredient[i] \notin {ABSENT, NULL} /\ strip(row.strIngredient[i]) # <<>>
          THEN <<i>> ELSE <<>>) \o SlotsInOrder(row, i + 1)

\* C12: the reshaper emits one tuple per slot whose ingredient cell is
\* non-missing and non-empty after trimming, in slot order, carrying the
\* cocktail, the ingredient, the measure (the empty string when it is
\* missing, never NULL) and the order, which equals the slot number.
C12_WideReshape ==
    last.op = "load_all_drinks" =>
        LET row == last.df[1]
            want == SlotsInOrder(row, 1)
            got == last.measurements_list
        IN  /\ Len(got) = Len(want)
            /\ \A k \in 1..Len(got) :
                  /\ got[k].cocktail_name = row.strDrink
                  /\ got[k].ingredient_name = row.strIngredient[want[k]]
                  /\ got[k].quantity # NULL
                  /\ got[k].quantity =
                        IF row.strMeasure[want[k]] \in {ABSENT, NULL} THEN <<>>
                        ELSE row.strMeasure[want[k]]
                  /\ "order" \in DOMAIN got[k]
                  /\ got[k].order = want[k]

\* ------------------------------------------------------- per-source cocktails
\* the cocktail rows of a source and the relationship rows attached to them
CocktailsOf(d, source) == {c \in d.cocktail : c.source = source}
RelationsOf(d, source) ==
    {r \in d.cocktail_ingredient :
        \E c \in CocktailsOf(d, source) : c.id = r.cocktail_id}
OtherSource(source) == IF source = TCD THEN BOSTON ELSE TCD

\* C13: a name imported from both sources has one cocktail row per source,
\* with distinct identifiers; a driver's writes, and a committed run of one
\* source, leave the other source's cocktail rows and the relationship rows
\* attached to them as they were; an ingredient name has one row for both
\* sources.
C13_PerSourceCocktails ==
    /\ [](\A c1 \in tx.cocktail : \A c2 \in tx.cocktail :
            (c1.id = c2.id \/ (c1.name = c2.name /\ c1.source = c2.source)) => c1 = c2)
    /\ []((args.source = "both" /\ (pc = "finish" \/ (pc = "done" /\ ~args.dry_run))) =>
            \A n \in Fetched(tcd_drinks(args.limit)) \cap Fetched(boston_names(args.limit)) :
                \E c1 \in CocktailsOf(tx, TCD) : \E c2 \in CocktailsOf(tx, BOSTON) :
                    c1.name = n /\ c2.name = n /\ c1.id # c2.id)
    /\ [](\A i1 \in tx.ingredient : \A i2 \in tx.ingredient : i1.name = i2.name => i1 = i2)
    /\ [][\A source \in {TCD, BOSTON} :
            /\ (pc = IF source = TCD THEN "tcd_loop" ELSE "boston_loop") /\ pc' # "error"
                => /\ CocktailsOf(tx', OtherSource(source)) = CocktailsOf(tx, OtherSource(source))
                   /\ RelationsOf(tx', OtherSource(source)) = RelationsOf(tx, OtherSource(source))
            /\ args'.source = source
                => /\ CocktailsOf(db', OtherSource(source)) = CocktailsOf(db, OtherSource(source))
                   /\ RelationsOf(db', OtherSource(source)) = RelationsOf(db, OtherSource(source))]_vars

\* C13 witness: a run over both sources ended with one name as two
\* cocktails, each with a relationship to the same ingredient row
C13_Witness ==
    /\ pc = "done"
    /\ args.source = "both"
    /\ \E c1 \in CocktailsOf(db, TCD) : \E c2 \in CocktailsOf(db, BOSTON) :
          /\ c1.name = c2.name
          /\ c1.id # c2.id
          /\ \E r1 \in db.cocktail_ingredient : \E r2 \in db.cocktail_ingredient :
                /\ r1.cocktail_id = c1.id
                /\ r2.cocktail_id = c2.id
                /\ r1.ingredient_id = r2.ingredient_id
                /\ r1.source_dataset = TCD
                /\ r2.source_dataset = BOSTON

\* --------------------------------------------- runs over changing staging data
\* Runs of main over both sources, the staging tables being reloaded with
\* other rows between runs.
\* the staging rows loaded: those whose ingredient is a name as it is stored
RestageTcd == {r \in TcdUniverse : r.ingredient # <<>> /\ strip(r.ingredient) = r.ingredient}
RestageBoston ==
    {r \in BostonUniverse : r.ingredient # <<>> /\ strip(r.ingredient) = r.ingredient}

InitRestage ==
    /\ the_cocktail_db \in SUBSET RestageTcd
    /\ boston_cocktails \in SUBSET RestageBoston
    /\ Cardinality(the_cocktail_db) + Cardinality(boston_cocktails) <= MaxRows
    /\ glass_name_not_null \in BOOLEAN
    /\ InitCommon

\* the staging tables are loaded anew while no run is in progress
Restage ==
    /\ pc \in {"done", "error"}
    /\ \E tcd \in SUBSET RestageTcd : \E boston \in SUBSET RestageBoston :
          /\ Cardinality(tcd) + Cardinality(boston) <= MaxRows
          /\ <<tcd, boston>> # <<the_cocktail_db, boston_cocktails>>
          /\ the_cocktail_db' = tcd
          /\ boston_cocktails' = boston
    /\ pc' = "idle"
    /\ args' = NoArgs
    /\ totals' = <<>>
    /\ exc' = "none"
    /\ prev' = NoRun
    /\ UNCHANGED <<glass_name_not_null, db, tx, drinks, counters, last, issued>>

RestageArgs == [source : {"both"}, limit : {NullInt}, dry_run : BOOLEAN]

NextRestage ==
    \/ \E a \in RestageArgs : Begin(a)
    \/ TcdFetch
    \/ TcdIteration
    \/ TcdReturn
    \/ BostonFetch
    \/ BostonIteration
    \/ BostonReturn
    \/ Finish
    \/ DatastoreError
    \/ Except
    \/ Restage

SpecRestage == InitRestage /\ [][NextRestage]_vars

\* what exists in the canonical tables: cocktails by (name, source),
\* ingredients and glass types by name, relationships by the cocktail and
\* the ingredient they join
Existing(d) ==
    [cocktail |-> {<<c.name, c.source>> : c \in d.cocktail},
     ingredient |-> {i.name : i \in d.ingredient},
     glass_type |-> {g.name : g \in d.glass_type},
     cocktail_ingredient |->
        UNION {{<<c.name, c.source, i.name>> :
                   c \in {x \in d.cocktail : x.id = r.cocktail_id},
                   i \in {x \in d.ingredient : x.id = r.ingredient_id}} :
               r \in d.cocktail_ingredient}]

\* C14: whatever a run does (commit, dry run, failure), every cocktail,
\* ingredient, glass type and relationship of the committed tables is still
\* there afterwards, also when its staging rows are gone; within a run no
\* statement of a driver removes one either.
C14_StrictlyAdditive ==
    /\ [][(\A t \in DOMAIN Existing(db) : Existing(db)[t] \subseteq Existing(db')[t])]_vars
    /\ [][(pc \in {"tcd_loop", "boston_loop"} /\ pc' # "error") =>
            (\A t \in DOMAIN Existing(tx) : Existing(tx)[t] \subseteq Existing(tx')[t])]_vars

\* C14 witness: a committed run has ended that imported a cocktail while
\* the tables keep a cocktail, with a relationship, that is no longer staged
C14_Witness ==
    /\ pc = "done"
    /\ ~args.dry_run
    /\ BOSTON \in DOMAIN totals
    /\ totals[BOSTON].rels > 0
    /\ \E c \in CocktailsOf(db, TCD) :
          /\ c.name \notin DistinctNames(TCD)
          /\ c.glass_type_id # NullInt
          /\ \E r \in db.cocktail_ingredient : r.cocktail_id = c.id

\* ----------------------------------------------------------------- counters
StagedRows(source, names) ==
    IF source = TCD THEN {r \in the_cocktail_db : r.drink \in names}
    ELSE {r \in boston_cocktails : r.name \in names}

\* C15: the counters a driver returns after a first run: skipped and
\* conflicts are 0, created is the number of cocktails of the source it
\* upserted, rels is the number of staging rows of those cocktails with a
\* non-null ingredient that is non-empty after trimming, which is at least
\* the number of relationship rows of the source; the running counters
\* never count a skip or a conflict.
C15_Counters ==
    /\ counters.skipped = 0
    /\ counters.conflicts = 0
    /\ \A source \in DOMAIN totals :
          /\ totals[source].skipped = 0
          /\ totals[source].conflicts = 0
          /\ pc # "error" =>
                /\ totals[source].created = Cardinality(Upserted(tx, source))
                /\ totals[source].rels =
                      Cardinality(Counted(StagedRows(source, Upserted(tx, source))))
                /\ totals[source].rels >= Cardinality(RelationsOf(tx, source))

\* C15 witness: a driver returned more relationships upserted than the
\* source has relationship rows
C15_Witness ==
    /\ pc = "finish"
    /\ \E source \in DOMAIN totals :
          /\ totals[source].rels > Cardinality(RelationsOf(tx, source))
          /\ RelationsOf(tx, source) # {}

\* ------------------------------------- cocktail upserts next to relationships
\* upsert_cocktail and upsert_cocktail_ingredient called in any order on the
\* seeded tables.
NextIdentity ==
    \/ \E name \in {<<"A">>, <<"a">>}, category \in {NULL, <<"a">>}, glass \in {NULL, <<"a">>} :
          CallUpsertCocktail(name, TCD, category, glass, NULL, NULL)
    \/ \E c \in tx.cocktail, i \in tx.ingredient, quantity \in {NULL, <<"a">>} :
          CallUpsertCocktailIngredient(c.id, i.id, quantity, 1, c.source)

SpecIdentity == InitRelation /\ [][NextIdentity]_vars

\* C16: upsert_cocktail returns the identifier of the one row of its
\* (name, source): the identifier the row already had when it existed (and
\* then no row is added), a new one otherwise; the other cocktail rows and
\* every relationship row stay as they are.
C16_StableIdentity ==
    [][(last'.op = "upsert_cocktail" /\ last'.raised = "none") =>
        /\ last'.id # NullInt
        /\ {c.id : c \in CocktailConflict(tx'.cocktail, last'.name, last'.source)} = {last'.id}
        /\ Cardinality(CocktailConflict(tx'.cocktail, last'.name, last'.source)) = 1
        /\ IF CocktailConflict(tx.cocktail, last'.name, last'.source) # {}
           THEN /\ \A old \in CocktailConflict(tx.cocktail, last'.name, last'.source) :
                      old.id = last'.id
                /\ Cardinality(tx'.cocktail) = Cardinality(tx.cocktail)
           ELSE /\ \A c \in tx.cocktail : c.id # last'.id
                /\ Cardinality(tx'.cocktail) = Cardinality(tx.cocktail) + 1
        /\ tx.cocktail \ CocktailConflict(tx.cocktail, last'.name, last'.source)
              \subseteq tx'.cocktail
        /\ tx'.cocktail_ingredient = tx.cocktail_ingredient]_vars

\* C16 witness: a cocktail with a relationship row was upserted again and
\* the row is attached to the identifier returned
C16_Witness ==
    /\ last.op = "upsert_cocktail"
    /\ last.raised = "none"
    /\ last.existed
    /\ last.category # NULL
    /\ \E r \in tx.cocktail_ingredient : r.cocktail_id = last.id

\* ------------------------------------------------------- ingredient ordering
\* One run of one driver from the empty tables over a cocktail whose rows
\* carry distinct ingredients and order values of every kind: integers
\* staged out of order, a missing value, and for the text column a number
\* of two digits, a non-numeric text and a number above the integer range.
OrderTcd ==
    {TcdRow(<<"A">>, NULL, NULL, 2, <<"a">>, <<"a">>),
     TcdRow(<<"A">>, NULL, NULL, 1, <<"A">>, <<"a">>),
     TcdRow(<<"A">>, NULL, NULL, NullInt, <<"a", "a">>, <<"a">>)}
OrderBoston ==
    {BostonRow(<<"A">>, NULL, <<"2">>, <<"a">>, <<"a">>),
     BostonRow(<<"A">>, NULL, <<"1">>, <<"A">>, <<"a">>),
     BostonRow(<<"A">>, NULL, <<"1", "2">>, <<"A", "A">>, <<"a">>),
     BostonRow(<<"A">>, NULL, <<"a">>, <<"a", "a">>, <<"a">>),
     BostonRow(<<"A">>, NULL, NULL, <<"A", "a">>, <<"a">>),
     BostonRow(<<"A">>, NULL, <<"2", "2", "2", "2", "2", "2", "2", "2", "2", "2">>,
               <<"a", "A">>, <<"a">>)}

InitOrder ==
    /\ the_cocktail_db \in SUBSET OrderTcd
    /\ boston_cocktails \in SUBSET OrderBoston
    /\ Cardinality(the_cocktail_db) + Cardinality(boston_cocktails) <= MaxRows
    /\ glass_name_not_null = FALSE
    /\ InitCommon

OrderArgs == [source : {TCD, BOSTON}, limit : {NullInt}, dry_run : {FALSE}]

NextOrder ==
    \/ \E a \in OrderArgs : FirstRun(a)
    \/ TcdFetch
    \/ TcdIteration
    \/ TcdReturn
    \/ BostonFetch
    \/ BostonIteration
    \/ BostonReturn
    \/ Finish
    \/ Except

SpecOrder == InitOrder /\ [][NextOrder]_vars

\* the staged ingredient rows of a source as [cocktail, ingredient, numeric,
\* text]: the order value is numeric when the integer column holds a value,
\* when the text column holds digits only
OrderedRows(source) ==
    IF source = TCD
    THEN {[cocktail |-> r.drink, ingredient |-> strip(r.ingredient),
           numeric |-> r.ingredient_order # NullInt,
           text |-> <<>>, int |-> r.ingredient_order] : r \in the_cocktail_db}
    ELSE {[cocktail |-> r.name, ingredient |-> strip(r.ingredient),
           numeric |-> AllDigits(r.ingredient_number),
           text |-> r.ingredient_number, int |-> NullInt] : r \in boston_cocktails}

\* the integer value of a numeric order value of at most MaxLen digits
OrderValue(r) == IF r.text = <<>> THEN r.int ELSE ToInt(r.text)

\* numeric order values compared as numbers: by length, then digit by digit
RECURSIVE DigitsLess(_, _)
DigitsLess(s, t) ==
    IF s = <<>> THEN FALSE
    ELSE IF Head(s) # Head(t) THEN DigitVal(Head(s)) < DigitVal(Head(t))
    ELSE DigitsLess(Tail(s), Tail(t))
OrderBefore(r1, r2) ==
    /\ r1.numeric
    /\ r2.numeric =>
          IF r1.text = <<>> THEN r1.int < r2.int
          ELSE Len(r1.text) < Len(r2.text)
               \/ (Len(r1.text) = Len(r2.text) /\ DigitsLess(r1.text, r2.text))

\* the relationship row a staged row left, found by names
RelationOf(d, source, r) ==
    {x \in d.cocktail_ingredient :
        /\ \E c \in CocktailsOf(d, source) : c.name = r.cocktail /\ c.id = x.cocktail_id
        /\ \E i \in d.ingredient : i.name = r.ingredient /\ i.id = x.ingredient_id}

\* C17: no order value makes a driver fail; when a driver has returned,
\* the ingredients of a cocktail were created in ascending numeric order of
\* their rows, those of rows without a numeric order value after all
\* others, and each relationship row stores the integer value of a numeric
\* order value and NULL for any other.
C17_IngredientOrdering ==
    /\ exc # "DataError"
    /\ \A source \in DOMAIN totals :
          \A r1 \in OrderedRows(source) :
              /\ \E x \in RelationOf(tx, source, r1) :
                    x.ingredient_order = IF r1.numeric THEN OrderValue(r1) ELSE NullInt
              /\ \A r2 \in OrderedRows(source) :
                    (r1.cocktail = r2.cocktail /\ OrderBefore(r1, r2) /\ ~OrderBefore(r2, r1)) =>
                        \A i1 \in tx.ingredient : \A i2 \in tx.ingredient :
                            (i1.name = r1.ingredient /\ i2.name = r2.ingredient) => i1.id < i2.id

\* ---------------------------------------- one ingredient twice in a cocktail
\* Runs of one driver, one after another over the same staging rows: a
\* cocktail lists one ingredient (after trimming) under distinct order
\* values, under one order value twice, and without an order value. No
\* statement of a run over these rows raises, so the only failure is the
\* datastore's.
DupTcd ==
    {TcdRow(<<"A">>, NULL, NULL, 1, <<"a">>, <<"A">>),
     TcdRow(<<"A">>, NULL, NULL, 2, <<"a", " ">>, <<"a">>),
     TcdRow(<<"A">>, NULL, NULL, 2, <<" ", "a">>, <<"a", "a">>),
     TcdRow(<<"A">>, NULL, NULL, NullInt, <<"a">>, NULL)}
DupBoston ==
    {BostonRow(<<"A">>, NULL, <<"1">>, <<"a">>, <<"A">>),
     BostonRow(<<"A">>, NULL, <<"2">>, <<"a", " ">>, <<"a">>),
     BostonRow(<<"A">>, NULL, <<"a">>, <<" ", "a">>, <<"a", "a">>),
     BostonRow(<<"A">>, NULL, NULL, <<"a">>, NULL)}

InitDup ==
    /\ the_cocktail_db \in SUBSET DupTcd
    /\ boston_cocktails \in SUBSET DupBoston
    /\ Cardinality(the_cocktail_db) + Cardinality(boston_cocktails) <= MaxRows
    /\ glass_name_not_null = FALSE
    /\ InitCommon

DupArgs == [source : {TCD, BOSTON}, limit : {NullInt}, dry_run : {FALSE}]

NextDup ==
    \/ \E a \in DupArgs : Begin(a)
    \/ TcdFetch
    \/ TcdIteration
    \/ TcdReturn
    \/ BostonFetch
    \/ BostonIteration
    \/ BostonReturn
    \/ Finish
    \/ DatastoreError

SpecDup == InitDup /\ [][NextDup]_vars

\* the staged occurrences of an ingredient in a cocktail of a source, as the
\* [order, quantity] its ingredient query returns for them
Occurrences(source, cocktail, ingredient) ==
    IF source = TCD
    THEN {[order |-> r.ingredient_order, quantity |-> r.measure, row |-> r] :
            r \in {x \in the_cocktail_db :
                      /\ x.drink = cocktail
                      /\ x.ingredient # NULL
                      /\ strip(x.ingredient) = ingredient}}
    ELSE {[order |-> boston_order_idx(r.ingredient_number), quantity |-> r.measure, row |-> r] :
            r \in {x \in boston_cocktails :
                      /\ x.name = cocktail
                      /\ x.ingredient # NULL
                      /\ strip(x.ingredient) = ingredient}}

\* occurrence o2 is processed after o whatever the order of ties
ProcessedAfter(o2, o) == o.order # NullInt /\ (o2.order = NullInt \/ o2.order > o.order)

\* C18: when a driver has returned, an ingredient staged more than once
\* for a cocktail has exactly one relationship row for the pair, carrying
\* the driver's source and the quantity and order of an occurrence that no
\* other occurrence is processed after, and the row is the one an earlier
\* run over the same staging rows committed.
C18_DuplicateIngredient ==
    pc = "finish" =>
        \A source \in DOMAIN totals : \A c \in CocktailsOf(tx, source) : \A i \in tx.ingredient :
            LET occ == Occurrences(source, c.name, i.name)
                pair == {x \in tx.cocktail_ingredient :
                            x.cocktail_id = c.id /\ x.ingredient_id = i.id}
            IN  Cardinality(occ) >= 2 =>
                    /\ Cardinality(pair) = 1
                    /\ \A x \in pair :
                          /\ x.source_dataset = source
                          /\ \E o \in occ :
                                /\ x.quantity = o.quantity
                                /\ x.ingredient_order = o.order
                                /\ \A o2 \in occ : ~ProcessedAfter(o2, o)
                          /\ \A y \in db.cocktail_ingredient :
                                (y.cocktail_id = c.id /\ y.ingredient_id = i.id) => y = x

\* ------------------------------------------------------ referential integrity
\* the references of the tables d: relationship rows to cocktail and
\* ingredient rows, cocktail rows to glass_type rows
References(d) ==
    /\ \A x \in d.cocktail_ingredient :
          /\ \E c \in d.cocktail : c.id = x.cocktail_id /\ c.source = x.source_dataset
          /\ \E i \in d.ingredient : i.id = x.ingredient_id
    /\ \A c \in d.cocktail :
          c.glass_type_id # NullInt => \E g \in d.glass_type : g.id = c.glass_type_id

\* the source of the driver whose loop is running
LoopSource == IF pc = "tcd_loop" THEN TCD ELSE BOSTON

\* C19: in every state of every sequence of runs from the empty tables, in
\* the transaction and in the committed tables, every relationship row
\* refers to an existing cocktail row of its source_dataset and to an
\* existing ingredient row, and every cocktail row with a glass refers to
\* an existing glass_type row; every relationship row an iteration of a
\* driver writes carries the identifier of the cocktail row of the name
\* and source the iteration upserted.
C19_ReferentialIntegrity ==
    /\ [](References(tx) /\ References(db))
    /\ [][(pc \in {"tcd_loop", "boston_loop"} /\ drinks # <<>> /\ pc' # "error") =>
            (\A x \in tx'.cocktail_ingredient \ tx.cocktail_ingredient :
                /\ x.source_dataset = LoopSource
                /\ \E c \in tx'.cocktail :
                      /\ c.id = x.cocktail_id
                      /\ c.name = Head(drinks).name
                      /\ c.source = LoopSource)]_vars

\* C19 witness: a committed run left a cocktail with a glass and a
\* relationship row, the cocktail of another source beside it
C19_Witness ==
    /\ pc = "done"
    /\ ~args.dry_run
    /\ \E c \in db.cocktail : \E x \in db.cocktail_ingredient :
          /\ c.glass_type_id # NullInt
          /\ x.cocktail_id = c.id
          /\ \E c2 \in db.cocktail : c2.source # c.source

\* ------------------------------------------------------------ dimension rows
\* Both resolvers called on one transaction with every string of at most
\* MaxDimLen characters (blanks and letters of both cases) as the name.
MaxDimLen == 2

NextDimension ==
    \/ \E name \in Strings(MaxDimLen) \cup {NULL} : CallGetOrCreateGlass(name)
    \/ \E name \in Strings(MaxDimLen) : CallGetOrCreateIngredient(name)

SpecDimension == InitOps /\ [][NextDimension]_vars

\* C20: every ingredient row has a non-empty name without surrounding
\* whitespace, and every glass_type row has a name that is not NULL, not
\* empty and equal to its own trimmed title-cased form.
C20_NormalizedDimensions ==
    /\ \A i \in tx.ingredient :
          i.name # NULL /\ i.name # <<>> /\ strip(i.name) = i.name
    /\ \A g \in tx.glass_type :
          g.name # NULL /\ g.name # <<>> /\ title_case(g.name) = g.name

====
